---- MODULE Spec2Model ----
(***************************************************************************)
(* Model of the marketplace backend (src/src/db.js): the identifier        *)
(* conversion parseId, the Express route handlers for Users, Stores and    *)
(* Products over the Prisma storage layer, and the process lifecycle       *)
(* ($connect at import, app.listen, gracefulShutdown on SIGINT/SIGTERM).   *)
(***************************************************************************)
EXTENDS Integers, Sequences, FiniteSets, Bags, TLC

VARIABLES
    input,          \* the JavaScript value handed to parseId
    output,         \* "pending" before parseId is called, then its result
    users,          \* table User: rows [id, email, name]
    stores,         \* table Store: rows [id, name, userId]
    products,       \* table Product: rows [id, name, price, storeId]
    nextUserId,     \* autoincrement counters of the three tables
    nextStoreId,
    nextProductId,
    inflight,       \* bag of POST /stores and POST /products handlers suspended
                    \* between their existence check and their insert
    resp,           \* the response last sent: [op, status, calls, ids]
    deletedStores,  \* history: ids of the stores a DELETE /stores/:id answered 204 for
    madeIn,         \* history: madeIn[p] is the store product p was created in
    connect,        \* the promise of prisma.$connect(): "pending", "ready" or "failed"
    listening,      \* the server of app.listen accepts connections
    phase,          \* phase[h]: where request h is: "none" (not arrived), "query1",
                    \* "query2" (awaiting its first, second storage call),
                    \* "answered", or "cut" (the process exited under its storage call)
    awaiting,       \* gracefulShutdown calls awaiting prisma.$disconnect()
    settled,        \* gracefulShutdown calls whose $disconnect() has settled
    exitCode,       \* <<>> while the process runs, <<code>> once process.exit(code) ran
    drains,         \* whether $disconnect() waits for the queries running when it is called
    draining,       \* the requests whose running query a $disconnect() waits for
    atSignal        \* history: the requests awaiting a storage call when a signal arrived

parseVars == <<input, output>>
dbVars == <<users, stores, products, nextUserId, nextStoreId, nextProductId>>
apiVars == <<dbVars, inflight, resp, deletedStores, madeIn>>
procVars == <<connect, listening, phase, awaiting, settled, exitCode, drains, draining, atSignal>>
vars == <<parseVars, apiVars, procVars>>

(***************************************************************************)
(* Bounds                                                                  *)
(***************************************************************************)
\* longest string (in characters) enumerated as an input of parseId
MaxLen == 3
\* rows ever inserted into each table
MaxUsers == 2
MaxStores == 2
MaxProducts == 2
\* handlers suspended at an await at the same time
MaxInflight == 2
\* requests that arrive in the life of the process
MaxHandlers == 2
\* termination signals the process receives
MaxSignals == 2

(***************************************************************************)
(* JavaScript values.  A string is a sequence of one-character strings.    *)
(* A number is kept exactly as sign, decimal mantissa and decimal exponent *)
(* (value = m * 10^e), or is NaN or an infinity.                           *)
(***************************************************************************)
NumNaN == [k |-> "nan", neg |-> FALSE, m |-> 0, e |-> 0]
NumInf(neg) == [k |-> "inf", neg |-> neg, m |-> 0, e |-> 0]

RECURSIVE Normalise(_, _)
\* mantissa and exponent with the trailing zeros of m moved into e
Normalise(m, e) ==
    IF m = 0 THEN <<0, 0>>
    ELSE IF m % 10 = 0 THEN Normalise(m \div 10, e + 1)
    ELSE <<m, e>>

RECURSIVE NumDigits(_)
NumDigits(m) == IF m < 10 THEN 1 ELSE 1 + NumDigits(m \div 10)

\* The double nearest to (-1)^neg * m * 10^e: beyond the range of a double it
\* is an infinity, below the smallest denormal it is a zero.  (The decade of
\* Number.MAX_VALUE itself, 1e308..1.8e308, is treated as finite.)
NumFin(neg, m, e) ==
    LET n == Normalise(m, e)
        mag == NumDigits(n[1]) + n[2]
    IN  IF n[1] # 0 /\ mag > 309 THEN NumInf(neg)
        ELSE IF n[1] # 0 /\ mag < -323 THEN [k |-> "fin", neg |-> neg, m |-> 0, e |-> 0]
        ELSE [k |-> "fin", neg |-> neg, m |-> n[1], e |-> n[2]]

JsUndefined == [t |-> "undefined", s |-> <<>>, n |-> NumNaN]
JsNull      == [t |-> "null", s |-> <<>>, n |-> NumNaN]
JsObject    == [t |-> "object", s |-> <<>>, n |-> NumNaN]
JsBool(b)   == [t |-> IF b THEN "true" ELSE "false", s |-> <<>>, n |-> NumNaN]
JsStr(s)    == [t |-> "string", s |-> s, n |-> NumNaN]
JsNum(n)    == [t |-> "number", s |-> <<>>, n |-> n]
JsInt(i)    == JsNum(NumFin(i < 0, IF i < 0 THEN -i ELSE i, 0))

(***************************************************************************)
(* Number(v): ToNumber of ECMAScript, on the values above.                 *)
(***************************************************************************)
Digits == {"0", "1", "2", "3", "4", "5", "6", "7", "8", "9"}
WhiteSpace == {" ", "\t", "\n", "\r"}

DigitVal(c) ==
    CASE c = "0" -> 0 [] c = "1" -> 1 [] c = "2" -> 2 [] c = "3" -> 3
      [] c = "4" -> 4 [] c = "5" -> 5 [] c = "6" -> 6 [] c = "7" -> 7
      [] c = "8" -> 8 [] c = "9" -> 9

RECURSIVE TrimStart(_)
TrimStart(s) ==
    IF s # <<>> /\ Head(s) \in WhiteSpace THEN TrimStart(Tail(s)) ELSE s

RECURSIVE TrimEnd(_)
TrimEnd(s) ==
    IF s # <<>> /\ s[Len(s)] \in WhiteSpace
    THEN TrimEnd(SubSeq(s, 1, Len(s) - 1)) ELSE s

\* String.prototype.trim, also the whitespace stripping of StringToNumber
Trim(s) == TrimEnd(TrimStart(s))

RECURSIVE SpanDigits(_, _)
\* the index after the run of digits of s that starts at i
SpanDigits(s, i) ==
    IF i <= Len(s) /\ s[i] \in Digits THEN SpanDigits(s, i + 1) ELSE i

RECURSIVE DigitsVal(_, _)
\* the value of a run of digits, capped (only an exponent can grow large)
DigitsVal(s, acc) ==
    IF s = <<>> THEN acc
    ELSE DigitsVal(Tail(s), IF acc > 99999 THEN acc ELSE acc * 10 + DigitVal(Head(s)))

\* StringToNumber: StrWhiteSpace? StrNumericLiteral? StrWhiteSpace?, where the
\* literal is [+-]? (Infinity | digits [. digits?] exp? | . digits exp?).
\* Hex, octal and binary literals (0x, 0o, 0b) are outside the alphabet used.
StringToNumber(str) ==
    LET t == Trim(str)
        signed == t # <<>> /\ t[1] \in {"+", "-"}
        neg == t # <<>> /\ t[1] = "-"
        p0 == IF signed THEN 2 ELSE 1
        p1 == SpanDigits(t, p0)
        hasDot == p1 <= Len(t) /\ t[p1] = "."
        p2 == IF hasDot THEN SpanDigits(t, p1 + 1) ELSE p1
        intDigits == SubSeq(t, p0, p1 - 1)
        fracDigits == IF hasDot THEN SubSeq(t, p1 + 1, p2 - 1) ELSE <<>>
        hasExp == p2 <= Len(t) /\ t[p2] \in {"e", "E"}
        expSigned == hasExp /\ p2 + 1 <= Len(t) /\ t[p2 + 1] \in {"+", "-"}
        expNeg == expSigned /\ t[p2 + 1] = "-"
        p3 == IF hasExp THEN (IF expSigned THEN p2 + 2 ELSE p2 + 1) ELSE p2
        p4 == IF hasExp THEN SpanDigits(t, p3) ELSE p2
        expDigits == IF hasExp THEN SubSeq(t, p3, p4 - 1) ELSE <<>>
        expVal == DigitsVal(expDigits, 0)
        exp == IF expNeg THEN -expVal ELSE expVal
    IN  IF t = <<>> THEN NumFin(FALSE, 0, 0)
        ELSE IF SubSeq(t, p0, Len(t)) = <<"I", "n", "f", "i", "n", "i", "t", "y">>
        THEN NumInf(neg)
        ELSE IF /\ intDigits \o fracDigits # <<>>
                /\ (hasExp => expDigits # <<>>)
                /\ p4 = Len(t) + 1
        THEN NumFin(neg, DigitsVal(intDigits \o fracDigits, 0), exp - Len(fracDigits))
        ELSE NumNaN

\* Number(v)
ToNumber(v) ==
    CASE v.t = "undefined" -> NumNaN
      [] v.t = "null" -> NumFin(FALSE, 0, 0)
      [] v.t = "true" -> NumFin(FALSE, 1, 0)
      [] v.t = "false" -> NumFin(FALSE, 0, 0)
      [] v.t = "number" -> v.n
      [] v.t = "string" -> StringToNumber(v.s)
      [] v.t = "object" -> NumNaN

\* Number.isFinite(n)
IsFinite(n) == n.k = "fin"

\* n <= 0 of JavaScript: false when n is NaN, true for both zeros
LeqZero(n) ==
    CASE n.k = "nan" -> FALSE
      [] n.k = "inf" -> n.neg
      [] n.k = "fin" -> n.neg \/ n.m = 0

\* n is a (mathematical) integer
IsInteger(n) == n.k = "fin" /\ n.e >= 0

NoId == [k |-> "null", neg |-> FALSE, m |-> 0, e |-> 0]

\* db.js parseId with `n < 0` in place of `n <= 0`
ParseIdAcceptsZero(v) ==
    CHOOSE id \in {IF ~IsFinite(n) \/ (LeqZero(n) /\ n.m # 0) THEN NoId ELSE n :
                      n \in {ToNumber(v)}} : TRUE

\* const parseId = (v) => { const n = Number(v);
\*   if (!Number.isFinite(n) || n <= 0) return null; return n; }
\* (n is bound to the one value Number(v) has; the result is the one element
\* of the set)
parseId(v) ==
    CHOOSE id \in {IF ~IsFinite(n) \/ LeqZero(n) THEN NoId ELSE n :
                      n \in {ToNumber(v)}} : TRUE

(***************************************************************************)
(* Inputs of parseId: every string over Alphabet up to MaxLen characters,  *)
(* some longer literals, and the values that are not strings.              *)
(***************************************************************************)
Alphabet == {"0", "1", "2", "5", "-", "+", ".", "e", " ", "a"}

StringsUpTo(n) == UNION {[1..k -> Alphabet] : k \in 0..n}

LongStrings ==
    { <<"1", "e", "9", "9", "9">>, <<"1", "e", "-", "9", "9", "9">>,
      <<"I", "n", "f", "i", "n", "i", "t", "y">>,
      <<"-", "I", "n", "f", "i", "n", "i", "t", "y">>,
      <<" ", "1", "2", " ", " ">>, <<"1", "2", "5", "0", "0">> }

NonStrings ==
    { JsUndefined, JsNull, JsObject, JsBool(TRUE), JsBool(FALSE), JsNum(NumNaN),
      JsNum(NumInf(FALSE)), JsNum(NumInf(TRUE)), JsNum(NumFin(TRUE, 0, 0)),
      JsInt(0), JsInt(1), JsInt(2), JsInt(-1), JsNum(NumFin(FALSE, 15, -1)) }

ParseInputs == {JsStr(s) : s \in StringsUpTo(MaxLen) \cup LongStrings} \cup NonStrings

Pending == [k |-> "pending", neg |-> FALSE, m |-> 0, e |-> 0]

(***************************************************************************)
(* Storage layer: the Prisma client over the three tables.  Every call     *)
(* returns its error code ("ok" when it succeeds) and the tables after it. *)
(*   P2002 unique constraint failed     P2025 record not found             *)
(*   P2003 foreign key constraint failed                                   *)
(*   "validation" is a PrismaClientValidationError: an argument of the     *)
(*   wrong type, thrown without a code before the database is reached      *)
(***************************************************************************)
RECURSIVE Pow10(_)
Pow10(n) == IF n = 0 THEN 1 ELSE 10 * Pow10(n - 1)

\* the integer an integral number stands for
IdVal(n) == n.m * Pow10(n.e)

Db(code, u, s, p, nu, ns, np) ==
    [code |-> code, users |-> u, stores |-> s, products |-> p,
     nu |-> nu, ns |-> ns, np |-> np]

\* a call that fails, or only reads: the tables stay as they are
Keep(code) ==
    Db(code, users, stores, products, nextUserId, nextStoreId, nextProductId)

\* model User { id Int @id @default(autoincrement()); email String @unique; name String? }
userCreate(email, name) ==
    IF name.t \notin {"undefined", "null", "string"} THEN Keep("validation")
    ELSE IF \E u \in users : u.email = email THEN Keep("P2002")
    ELSE Db("ok",
            users \cup {[id |-> nextUserId, email |-> email,
                         name |-> IF name.t = "string" THEN name ELSE JsNull]},
            stores, products, nextUserId + 1, nextStoreId, nextProductId)

\* prisma.user.update({ where: { id }, data }); data is a function on the
\* fields that are set
userUpdate(id, data) ==
    IF ~IsInteger(id) THEN Keep("validation")
    ELSE IF ~\E u \in users : u.id = IdVal(id) THEN Keep("P2025")
    ELSE LET old == CHOOSE u \in users : u.id = IdVal(id)
             new == [old EXCEPT
                       !.email = IF "email" \in DOMAIN data THEN data["email"] ELSE @,
                       !.name = IF "name" \in DOMAIN data THEN data["name"] ELSE @]
         IN  IF \E u \in users \ {old} : u.email = new.email THEN Keep("P2002")
             ELSE Db("ok", (users \ {old}) \cup {new}, stores, products,
                     nextUserId, nextStoreId, nextProductId)

\* prisma.user.delete: the user's store goes with it (Store.user onDelete:
\* Cascade) and the store's products with the store
userDelete(id) ==
    IF ~IsInteger(id) THEN Keep("validation")
    ELSE IF ~\E u \in users : u.id = IdVal(id) THEN Keep("P2025")
    ELSE LET gone == {s \in stores : s.userId = IdVal(id)}
         IN  Db("ok", {u \in users : u.id # IdVal(id)}, stores \ gone,
                {p \in products : ~\E s \in gone : s.id = p.storeId},
                nextUserId, nextStoreId, nextProductId)

\* prisma.user.findUnique({ where: { id } })
userFind(id) ==
    IF ~IsInteger(id) THEN "validation"
    ELSE IF \E u \in users : u.id = IdVal(id) THEN "ok" ELSE "none"

\* model Store { name String; userId Int @unique; user User @relation(...) }
storeCreate(name, userId) ==
    IF name.t # "string" \/ ~IsInteger(userId) THEN Keep("validation")
    ELSE IF ~\E u \in users : u.id = IdVal(userId) THEN Keep("P2003")
    ELSE IF \E s \in stores : s.userId = IdVal(userId) THEN Keep("P2002")
    ELSE Db("ok", users,
            stores \cup {[id |-> nextStoreId, name |-> name.s, userId |-> IdVal(userId)]},
            products, nextUserId, nextStoreId + 1, nextProductId)

storeUpdate(id, name) ==
    IF name.t # "string" \/ ~IsInteger(id) THEN Keep("validation")
    ELSE IF ~\E s \in stores : s.id = IdVal(id) THEN Keep("P2025")
    ELSE Db("ok", users,
            {IF s.id = IdVal(id) THEN [s EXCEPT !.name = name.s] ELSE s : s \in stores},
            products, nextUserId, nextStoreId, nextProductId)

\* prisma.store.delete: Product.store is onDelete: Cascade
storeDelete(id) ==
    IF ~IsInteger(id) THEN Keep("validation")
    ELSE IF ~\E s \in stores : s.id = IdVal(id) THEN Keep("P2025")
    ELSE Db("ok", users, {s \in stores : s.id # IdVal(id)},
            {p \in products : p.storeId # IdVal(id)},
            nextUserId, nextStoreId, nextProductId)

storeFind(id) ==
    IF ~IsInteger(id) THEN "validation"
    ELSE IF \E s \in stores : s.id = IdVal(id) THEN "ok" ELSE "none"

\* model Product { name String; price; storeId Int; store Store @relation(...) }
productCreate(name, price, storeId) ==
    IF name.t # "string" \/ ~IsInteger(storeId) THEN Keep("validation")
    ELSE IF ~\E s \in stores : s.id = IdVal(storeId) THEN Keep("P2003")
    ELSE Db("ok", users, stores,
            products \cup {[id |-> nextProductId, name |-> name.s, price |-> price,
                            storeId |-> IdVal(storeId)]},
            nextUserId, nextStoreId, nextProductId + 1)

productUpdate(id, data) ==
    IF ~IsInteger(id) THEN Keep("validation")
    ELSE IF ~\E p \in products : p.id = IdVal(id) THEN Keep("P2025")
    ELSE Db("ok", users, stores,
            {IF p.id = IdVal(id)
             THEN [p EXCEPT
                     !.name = IF "name" \in DOMAIN data THEN data["name"] ELSE @,
                     !.price = IF "price" \in DOMAIN data THEN data["price"] ELSE @]
             ELSE p : p \in products},
            nextUserId, nextStoreId, nextProductId)

productDelete(id) ==
    IF ~IsInteger(id) THEN Keep("validation")
    ELSE IF ~\E p \in products : p.id = IdVal(id) THEN Keep("P2025")
    ELSE Db("ok", users, stores, {p \in products : p.id # IdVal(id)},
            nextUserId, nextStoreId, nextProductId)

productFind(id) ==
    IF ~IsInteger(id) THEN "validation"
    ELSE IF \E p \in products : p.id = IdVal(id) THEN "ok" ELSE "none"

RECURSIVE SortDesc(_)
\* the ids of a set of rows, largest first
SortDesc(rows) ==
    IF rows = {} THEN <<>>
    ELSE LET top == CHOOSE r \in rows : \A q \in rows : q.id <= r.id
         IN  <<top.id>> \o SortDesc(rows \ {top})

\* prisma.product.findMany({ orderBy: { id: "desc" } })
productFindMany == SortDesc(products)

(***************************************************************************)
(* Route handlers.  A handler runs without interruption up to an await     *)
(* and between awaits; a storage call is atomic in the database.  The      *)
(* handlers with one storage call are one step.  POST /stores and          *)
(* POST /products await twice (findUnique, then create): their second      *)
(* half is a step of its own, and any request may run in between.          *)
(***************************************************************************)
\* !v
Falsy(v) ==
    \/ v.t \in {"undefined", "null", "false"}
    \/ v.t = "string" /\ v.s = <<>>
    \/ v.t = "number" /\ (v.n.k = "nan" \/ (v.n.k = "fin" /\ v.n.m = 0))

NoRows == Keep("ok")

NoResp == [op |-> "none", args |-> <<>>, status |-> 0, calls |-> 0, ids |-> <<>>]

\* res.status(status).json(...) of the handler of `op`, called with `args`,
\* after `calls` storage calls that left the tables as in r; ids are the ids
\* of the product rows in the body.  The response stays in resp until it is
\* delivered.  The guard caps the autoincrement counters.
Send(op, args, status, calls, r, ids) ==
    /\ resp = NoResp
    /\ r.nu <= MaxUsers + 1 /\ r.ns <= MaxStores + 1 /\ r.np <= MaxProducts + 1
    /\ users' = r.users /\ stores' = r.stores /\ products' = r.products
    /\ nextUserId' = r.nu /\ nextStoreId' = r.ns /\ nextProductId' = r.np
    /\ resp' = [op |-> op, args |-> args, status |-> status, calls |-> calls, ids |-> ids]

\* the response leaves the process
Deliver ==
    /\ resp # NoResp
    /\ resp' = NoResp
    /\ UNCHANGED <<dbVars, inflight, deletedStores, madeIn>>

\* sendPrismaError without its P2002 branch
sendPrismaErrorNoConflict(code) ==
    CASE code = "P2025" -> 404
      [] OTHER -> 400

\* sendPrismaError without its P2025 branch
sendPrismaErrorNoNotFound(code) ==
    CASE code = "P2002" -> 409
      [] OTHER -> 400

sendPrismaError(code) ==
    CASE code = "P2002" -> 409
      [] code = "P2025" -> 404
      [] OTHER -> 400

\* the catch of POST /users with the P2002 branch missing
PostUsersCatchNoConflict(code) == 400

\* catch (e) of POST /users
PostUsersCatch(code) ==
    CASE code = "P2002" -> 409
      [] OTHER -> 400

\* POST /users  body: { email, name? }
PostUsers(email, name) ==
    /\ IF Falsy(email) \/ email.t # "string"
       THEN Send("POST /users", <<email, name>>, 400, 0, NoRows, <<>>)
       ELSE \E r \in {userCreate(email.s, name)} :
                Send("POST /users", <<email, name>>,
                     IF r.code = "ok" THEN 201 ELSE PostUsersCatch(r.code), 1, r, <<>>)
    /\ UNCHANGED <<inflight, deletedStores, madeIn>>

\* the data object PUT /users/:id builds from the body
PutUsersData(email, name) ==
    LET e == IF email.t = "string" /\ Trim(email.s) # <<>>
             THEN [f \in {"email"} |-> Trim(email.s)] ELSE <<>>
        n == IF name.t = "string" THEN [f \in {"name"} |-> name] ELSE <<>>
    IN  e @@ n

\* catch (e) of PUT /users/:id
PutUsersCatch(code) ==
    CASE code = "P2002" -> 409
      [] code = "P2025" -> 404
      [] OTHER -> 400

\* PUT /users/:id  body: { email?, name? }
PutUsers(rawId, email, name) ==
    /\ \E id \in {parseId(rawId)}, data \in {PutUsersData(email, name)} :
           IF id = NoId THEN Send("PUT /users/:id", <<rawId, email, name>>, 400, 0, NoRows, <<>>)
           ELSE IF DOMAIN data = {} THEN Send("PUT /users/:id", <<rawId, email, name>>, 400, 0, NoRows, <<>>)
           ELSE \E r \in {userUpdate(id, data)} :
                    Send("PUT /users/:id", <<rawId, email, name>>,
                         IF r.code = "ok" THEN 200 ELSE PutUsersCatch(r.code), 1, r, <<>>)
    /\ UNCHANGED <<inflight, deletedStores, madeIn>>

\* the catch of DELETE /users/:id with the P2025 branch missing
DeleteUsersCatchNoNotFound(code) == 400

\* catch (e) of DELETE /users/:id
DeleteUsersCatch(code) ==
    CASE code = "P2025" -> 404
      [] OTHER -> 400

\* DELETE /users/:id
DeleteUsers(rawId) ==
    /\ \E id \in {parseId(rawId)} :
           IF id = NoId THEN Send("DELETE /users/:id", <<rawId>>, 400, 0, NoRows, <<>>)
           ELSE \E r \in {userDelete(id)} :
                    Send("DELETE /users/:id", <<rawId>>,
                         IF r.code = "ok" THEN 204 ELSE DeleteUsersCatch(r.code), 1, r, <<>>)
    /\ UNCHANGED <<inflight, deletedStores, madeIn>>

\* the handler awaits its second storage call
Suspend(op, name, id, price) ==
    /\ resp = NoResp
    /\ BagCardinality(inflight) < MaxInflight
    /\ inflight' = inflight (+) SetToBag({[op |-> op, name |-> name, id |-> id, price |-> price]})
    /\ UNCHANGED <<dbVars, resp>>

\* POST /stores up to its second await: validation, then the check that
\* the user exists
PostStores(name, userId) ==
    /\ \E uid \in {parseId(userId)} :
           IF Falsy(name) \/ uid = NoId
           THEN Send("POST /stores", <<name, userId>>, 400, 0, NoRows, <<>>) /\ UNCHANGED inflight
           ELSE \E found \in {userFind(uid)} :
                    IF found = "validation"
                    THEN Send("POST /stores", <<name, userId>>, sendPrismaError(found), 1, NoRows, <<>>)
                         /\ UNCHANGED inflight
                    ELSE IF found = "none"
                    THEN Send("POST /stores", <<name, userId>>, 404, 1, NoRows, <<>>) /\ UNCHANGED inflight
                    ELSE Suspend("POST /stores", name, uid, NumNaN)
    /\ UNCHANGED <<deletedStores, madeIn>>

\* POST /stores from prisma.store.create on
PostStoresCreate(h) ==
    /\ h \in BagToSet(inflight) /\ h.op = "POST /stores"
    /\ inflight' = inflight (-) SetToBag({h})
    /\ \E r \in {storeCreate(h.name, h.id)} :
           Send("POST /stores", <<h.name, JsNum(h.id)>>,
                IF r.code = "ok" THEN 201 ELSE sendPrismaError(r.code), 2, r, <<>>)
    /\ UNCHANGED <<deletedStores, madeIn>>

\* PUT /stores/:id  body: { name }
PutStores(rawId, name) ==
    /\ \E id \in {parseId(rawId)} :
           IF id = NoId THEN Send("PUT /stores/:id", <<rawId, name>>, 400, 0, NoRows, <<>>)
           ELSE IF Falsy(name) THEN Send("PUT /stores/:id", <<rawId, name>>, 400, 0, NoRows, <<>>)
           ELSE \E r \in {storeUpdate(id, name)} :
                    Send("PUT /stores/:id", <<rawId, name>>,
                         IF r.code = "ok" THEN 200 ELSE sendPrismaError(r.code), 1, r, <<>>)
    /\ UNCHANGED <<inflight, deletedStores, madeIn>>

\* DELETE /stores/:id
DeleteStores(rawId) ==
    \E id \in {parseId(rawId)} :
        IF id = NoId
        THEN Send("DELETE /stores/:id", <<rawId>>, 400, 0, NoRows, <<>>)
             /\ UNCHANGED <<inflight, deletedStores, madeIn>>
        ELSE \E r \in {storeDelete(id)} :
                 /\ Send("DELETE /stores/:id", <<rawId>>,
                         IF r.code = "ok" THEN 204 ELSE sendPrismaError(r.code), 1, r, <<>>)
                 /\ deletedStores' = IF r.code = "ok" THEN deletedStores \cup {IdVal(id)}
                                     ELSE deletedStores
                 /\ UNCHANGED <<inflight, madeIn>>

\* PostProductsCheck with `if (!store) return res.status(404)` answering 400
PostProductsCheckNoNotFound(found) == 400

\* the answer of POST /products when it stops at prisma.store.findUnique:
\* the call threw, or returned no store
PostProductsCheck(found) ==
    IF found = "none" THEN 404 ELSE sendPrismaError(found)

\* POST /products up to its second await
PostProducts(name, price, storeId) ==
    /\ \E sid \in {parseId(storeId)}, priceNum \in {ToNumber(price)} :
           IF Falsy(name) \/ sid = NoId \/ ~IsFinite(priceNum)
           THEN Send("POST /products", <<name, price, storeId>>, 400, 0, NoRows, <<>>) /\ UNCHANGED inflight
           ELSE \E found \in {storeFind(sid)} :
                    IF found \in {"validation", "none"}
                    THEN Send("POST /products", <<name, price, storeId>>, PostProductsCheck(found), 1,
                              NoRows, <<>>)
                         /\ UNCHANGED inflight
                    ELSE Suspend("POST /products", name, sid, priceNum)
    /\ UNCHANGED <<deletedStores, madeIn>>

\* POST /products from prisma.product.create on
PostProductsCreate(h) ==
    /\ h \in BagToSet(inflight) /\ h.op = "POST /products"
    /\ inflight' = inflight (-) SetToBag({h})
    /\ \E r \in {productCreate(h.name, h.price, h.id)} :
           /\ Send("POST /products", <<h.name, JsNum(h.price), JsNum(h.id)>>,
                   IF r.code = "ok" THEN 201 ELSE sendPrismaError(r.code), 2, r, <<>>)
           /\ madeIn' = IF r.code = "ok" THEN Append(madeIn, IdVal(h.id)) ELSE madeIn
    /\ UNCHANGED deletedStores

\* GET /products
GetProducts ==
    /\ Send("GET /products", <<>>, 200, 1, NoRows, productFindMany)
    /\ UNCHANGED <<inflight, deletedStores, madeIn>>

\* `if (!product) return res.status(404)` left out of GET /products/:id
GetProductsIdNoCheck(found) == 200

\* the answer of GET /products/:id to what findUnique returned
GetProductsIdStatus(found) ==
    CASE found = "ok" -> 200
      [] found = "none" -> 404
      [] OTHER -> sendPrismaError(found)

\* GET /products/:id
GetProductsId(rawId) ==
    /\ \E id \in {parseId(rawId)} :
           IF id = NoId THEN Send("GET /products/:id", <<rawId>>, 400, 0, NoRows, <<>>)
           ELSE \E found \in {productFind(id)} :
                    Send("GET /products/:id", <<rawId>>, GetProductsIdStatus(found), 1, NoRows,
                         IF found = "ok" THEN <<IdVal(id)>> ELSE <<>>)
    /\ UNCHANGED <<inflight, deletedStores, madeIn>>

\* PUT /products/:id with `return res.status(400)` on a price that is not
\* finite left out: the price is skipped and the update goes on
PutProductsDataSkipsBadPrice(name, price) ==
    LET n == IF name.t = "string" /\ Trim(name.s) # <<>>
             THEN [f \in {"name"} |-> Trim(name.s)] ELSE <<>>
        p == IF price.t # "undefined" /\ IsFinite(ToNumber(price))
             THEN [f \in {"price"} |-> ToNumber(price)] ELSE <<>>
    IN  [bad |-> FALSE, data |-> n @@ p]

\* the data object PUT /products/:id builds from the body; bad when the
\* price given is not a finite number
PutProductsData(name, price) ==
    LET n == IF name.t = "string" /\ Trim(name.s) # <<>>
             THEN [f \in {"name"} |-> Trim(name.s)] ELSE <<>>
        p == IF price.t # "undefined"
             THEN [f \in {"price"} |-> ToNumber(price)] ELSE <<>>
    IN  [bad |-> price.t # "undefined" /\ ~IsFinite(ToNumber(price)), data |-> n @@ p]

\* PUT /products/:id  body: { name?, price? }
PutProducts(rawId, name, price) ==
    /\ \E id \in {parseId(rawId)}, d \in {PutProductsData(name, price)} :
           IF id = NoId THEN Send("PUT /products/:id", <<rawId, name, price>>, 400, 0, NoRows, <<>>)
           ELSE IF d.bad THEN Send("PUT /products/:id", <<rawId, name, price>>, 400, 0, NoRows, <<>>)
           ELSE IF DOMAIN d.data = {} THEN Send("PUT /products/:id", <<rawId, name, price>>, 400, 0, NoRows, <<>>)
           ELSE \E r \in {productUpdate(id, d.data)} :
                    Send("PUT /products/:id", <<rawId, name, price>>,
                         IF r.code = "ok" THEN 200 ELSE sendPrismaError(r.code), 1, r, <<>>)
    /\ UNCHANGED <<inflight, deletedStores, madeIn>>

\* DELETE /products/:id
DeleteProducts(rawId) ==
    /\ \E id \in {parseId(rawId)} :
           IF id = NoId THEN Send("DELETE /products/:id", <<rawId>>, 400, 0, NoRows, <<>>)
           ELSE \E r \in {productDelete(id)} :
                    Send("DELETE /products/:id", <<rawId>>,
                         IF r.code = "ok" THEN 204 ELSE sendPrismaError(r.code), 1, r, <<>>)
    /\ UNCHANGED <<inflight, deletedStores, madeIn>>

(***************************************************************************)
(* Request inputs                                                          *)
(***************************************************************************)
DigitStr(i) == <<CHOOSE c \in Digits : DigitVal(c) = i>>

\* :id of a path: always a string
PathIds(max) ==
    {JsStr(DigitStr(i)) : i \in 1..(max + 1)}
        \cup {JsStr(<<"a">>), JsStr(<<"1", ".", "5">>)}

\* userId, storeId of a JSON body
BodyIds(max) ==
    {JsInt(i) : i \in 1..(max + 1)} \cup {JsUndefined}

\* bodies of every kind: fields absent, of the wrong type, empty, blank, valid
EmailInputs ==
    {JsUndefined, JsInt(5), JsStr(<<>>), JsStr(<<" ">>), JsStr(<<"a">>), JsStr(<<"b">>),
     JsStr(<<"a", " ">>)}
UserNameInputs == {JsUndefined, JsInt(5), JsStr(<<"n">>)}
StoreNameInputs ==
    {JsUndefined, JsInt(5), JsStr(<<>>), JsStr(<<" ">>), JsStr(<<"S">>), JsStr(<<"T">>)}
ProductNameInputs ==
    {JsUndefined, JsInt(5), JsStr(<<>>), JsStr(<<" ">>), JsStr(<<"P">>), JsStr(<<"Q">>)}
PriceInputs ==
    {JsUndefined, JsNull, JsStr(<<"a">>), JsNum(NumNaN), JsInt(10), JsStr(<<"2", "0">>)}

\* well-formed bodies only
ValidEmails == {JsUndefined, JsStr(<<"a">>), JsStr(<<"b">>)}
ValidUserNames == {JsUndefined}
ValidStoreNames == {JsUndefined, JsStr(<<"S">>)}
ValidProductNames == {JsUndefined, JsStr(<<"P">>)}
ValidPrices == {JsUndefined, JsInt(10)}

InitApi ==
    /\ users = {} /\ stores = {} /\ products = {}
    /\ nextUserId = 1 /\ nextStoreId = 1 /\ nextProductId = 1
    /\ inflight = EmptyBag
    /\ resp = NoResp
    /\ deletedStores = {}
    /\ madeIn = <<>>

Handlers == 1..MaxHandlers

\* the process once $connect() resolved and the server listens, no request
\* arrived and no signal received
Serving ==
    /\ connect = "ready"
    /\ listening = TRUE
    /\ phase = [h \in Handlers |-> "none"]
    /\ awaiting = 0 /\ settled = 0
    /\ exitCode = <<>>
    /\ drains = FALSE
    /\ draining = {}
    /\ atSignal = {}

Init == InitApi /\ Serving /\ input = JsUndefined /\ output = Pending

\* one step of any handler, its inputs drawn from the sets given
Requests(emails, userNames, storeNames, productNames, prices) ==
    \/ /\ resp = NoResp
       /\ \/ \E email \in emails, name \in userNames : PostUsers(email, name)
          \/ \E id \in PathIds(MaxUsers), email \in emails, name \in userNames :
                PutUsers(id, email, name)
          \/ \E id \in PathIds(MaxUsers) : DeleteUsers(id)
          \/ \E name \in storeNames, userId \in BodyIds(MaxUsers) : PostStores(name, userId)
          \/ \E h \in BagToSet(inflight) : PostStoresCreate(h)
          \/ \E id \in PathIds(MaxStores), name \in storeNames : PutStores(id, name)
          \/ \E id \in PathIds(MaxStores) : DeleteStores(id)
          \/ \E name \in productNames, price \in prices, storeId \in BodyIds(MaxStores) :
                PostProducts(name, price, storeId)
          \/ \E h \in BagToSet(inflight) : PostProductsCreate(h)
          \/ GetProducts
          \/ \E id \in PathIds(MaxProducts) : GetProductsId(id)
          \/ \E id \in PathIds(MaxProducts), name \in productNames, price \in prices :
                PutProducts(id, name, price)
          \/ \E id \in PathIds(MaxProducts) : DeleteProducts(id)
    \/ Deliver

\* The API under concurrent requests: any handler may run while POST /stores
\* and POST /products handlers are suspended.  Bodies are well-formed or lack
\* fields; ids are of every kind.
Next ==
    /\ Requests(ValidEmails, ValidUserNames, ValidStoreNames, ValidProductNames, ValidPrices)
    /\ UNCHANGED <<parseVars, procVars>>

Spec == Init /\ [][Next]_vars

\* The Users resource alone, over bodies of every kind.
NextUsers ==
    /\ \/ /\ resp = NoResp
          /\ \/ \E email \in EmailInputs, name \in UserNameInputs : PostUsers(email, name)
             \/ \E id \in PathIds(MaxUsers), email \in EmailInputs, name \in UserNameInputs :
                   PutUsers(id, email, name)
             \/ \E id \in PathIds(MaxUsers) : DeleteUsers(id)
       \/ Deliver
    /\ UNCHANGED <<parseVars, procVars>>

SpecUsers == Init /\ [][NextUsers]_vars

\* The state after POST /users {email: "a"}, POST /users {email: "b"},
\* POST /stores {name: "S", userId: 1} and
\* POST /products {name: "P", price: 10, storeId: 1}.
InitUpdates ==
    /\ users = {[id |-> 1, email |-> <<"a">>, name |-> JsNull],
                [id |-> 2, email |-> <<"b">>, name |-> JsNull]}
    /\ stores = {[id |-> 1, name |-> <<"S">>, userId |-> 1]}
    /\ products = {[id |-> 1, name |-> <<"P">>, price |-> NumFin(FALSE, 10, 0), storeId |-> 1]}
    /\ nextUserId = 3 /\ nextStoreId = 2 /\ nextProductId = 2
    /\ inflight = EmptyBag
    /\ resp = NoResp
    /\ deletedStores = {}
    /\ madeIn = <<1>>
    /\ Serving
    /\ input = JsUndefined /\ output = Pending

\* The update handlers over bodies of every kind, on rows that exist.
NextUpdates ==
    /\ \/ /\ resp = NoResp
          /\ \/ \E id \in PathIds(MaxUsers), email \in EmailInputs, name \in UserNameInputs :
                   PutUsers(id, email, name)
             \/ \E id \in PathIds(MaxStores), name \in StoreNameInputs : PutStores(id, name)
             \/ \E id \in PathIds(MaxProducts), name \in ProductNameInputs, price \in PriceInputs :
                   PutProducts(id, name, price)
       \/ Deliver
    /\ UNCHANGED <<parseVars, procVars>>

SpecUpdates == InitUpdates /\ [][NextUpdates]_vars

(***************************************************************************)
(* parseId on its own                                                      *)
(***************************************************************************)
InitParse == input \in ParseInputs /\ output = Pending /\ InitApi /\ Serving

\* one call parseId(input)
CallParseId ==
    /\ output = Pending
    /\ output' = parseId(input)
    /\ UNCHANGED <<input, apiVars, procVars>>

NextParse == CallParseId

SpecParse == InitParse /\ [][NextParse]_vars

(***************************************************************************)
(* Process lifecycle: $connect() at import, app.listen, gracefulShutdown   *)
(***************************************************************************)
\* the state when both modules have been evaluated: $connect() and
\* app.listen(PORT) have been called, neither has completed
InitProc ==
    /\ connect = "pending"
    /\ listening = FALSE
    /\ phase = [h \in Handlers |-> "none"]
    /\ awaiting = 0 /\ settled = 0
    /\ exitCode = <<>>
    /\ drains \in BOOLEAN
    /\ draining = {}
    /\ atSignal = {}
    /\ InitApi /\ input = JsUndefined /\ output = Pending

Running == exitCode = <<>>

\* the requests awaiting a storage call
InQuery == {h \in Handlers : phase[h] \in {"query1", "query2"}}

\* .then of $connect(): logs
ConnectResolves ==
    /\ Running /\ connect = "pending"
    /\ connect' = "ready"
    /\ UNCHANGED <<listening, phase, awaiting, settled, exitCode, drains, draining, atSignal>>

\* .catch of $connect(): logs
ConnectRejects ==
    /\ Running /\ connect = "pending"
    /\ connect' = "failed"
    /\ UNCHANGED <<listening, phase, awaiting, settled, exitCode, drains, draining, atSignal>>

\* the port is bound: the callback of app.listen logs
Listen ==
    /\ Running /\ ~listening
    /\ listening' = TRUE
    /\ UNCHANGED <<connect, phase, awaiting, settled, exitCode, drains, draining, atSignal>>

\* a server that takes requests whether or not it listens
AcceptingUnbound == Running

\* the server takes requests
Accepting == Running /\ listening

\* request h is dispatched to its handler, which runs to its first await of a
\* storage call, or to its response when validation fails
Dispatch(h) ==
    /\ Accepting /\ phase[h] = "none"
    /\ \E to \in {"query1", "answered"} : phase' = [phase EXCEPT ![h] = to]
    /\ UNCHANGED <<connect, listening, awaiting, settled, exitCode, drains, draining, atSignal>>

\* the storage call request h awaits settles: the handler answers, or (after
\* the existence check of POST /stores and POST /products) awaits its insert
QueryCompletes(h) ==
    /\ Running /\ h \in InQuery
    /\ \E to \in (IF phase[h] = "query1" THEN {"query2", "answered"} ELSE {"answered"}) :
          phase' = [phase EXCEPT ![h] = to]
    /\ draining' = draining \ {h}
    /\ UNCHANGED <<connect, listening, awaiting, settled, exitCode, drains, atSignal>>

\* SIGINT or SIGTERM: gracefulShutdown is called and awaits $disconnect()
Signal ==
    /\ Running /\ awaiting + settled < MaxSignals
    /\ awaiting' = awaiting + 1
    /\ draining' = IF drains THEN draining \cup InQuery ELSE draining
    /\ atSignal' = atSignal \cup InQuery
    /\ UNCHANGED <<connect, listening, phase, settled, exitCode, drains>>

\* a $disconnect() resolves or rejects (the catch block ignores the error)
DisconnectSettles ==
    /\ Running /\ awaiting > 0
    /\ drains => draining = {}
    /\ awaiting' = awaiting - 1
    /\ settled' = settled + 1
    /\ UNCHANGED <<connect, listening, phase, exitCode, drains, draining, atSignal>>

\* a gracefulShutdown that does not await $disconnect()
ExitReadyNoAwait == awaiting + settled > 0

\* a gracefulShutdown has reached its finally block
ExitReady == settled > 0

\* process.exit(0): the storage calls still awaited are abandoned
ProcessExit ==
    /\ Running /\ ExitReady
    /\ exitCode' = <<0>>
    /\ phase' = [h \in Handlers |-> IF h \in InQuery THEN "cut" ELSE phase[h]]
    /\ UNCHANGED <<connect, listening, awaiting, settled, drains, draining, atSignal>>

NextProc ==
    /\ \/ ConnectResolves
       \/ ConnectRejects
       \/ Listen
       \/ \E h \in Handlers : Dispatch(h)
       \/ \E h \in Handlers : QueryCompletes(h)
       \/ Signal
       \/ DisconnectSettles
       \/ ProcessExit
    /\ UNCHANGED <<parseVars, apiVars>>

SpecProc == InitProc /\ [][NextProc]_vars

\* the continuation of an await whose promise has settled is run
SpecProcFair == SpecProc /\ WF_procVars(ProcessExit)

(***************************************************************************)
(* Properties                                                              *)
(***************************************************************************)
\* a handler of `op` answers in this step (resp is empty before every
\* handler step, so a response in resp' is the one this step sends)
Answers(op) == resp = NoResp /\ resp' # NoResp /\ resp'.op = op

TablesUnchanged == users' = users /\ stores' = stores /\ products' = products

\* a string with something left after trimming
NonBlankString(v) == v.t = "string" /\ Trim(v.s) # <<>>

\* the id a raw value stands for is that of a row of `rows`
RefersTo(raw, rows) ==
    LET id == parseId(raw)
    IN  id # NoId /\ IsInteger(id) /\ \E r \in rows : r.id = IdVal(id)

\* a raw value that is a positive integer id, but of no row of `rows`
RefersToNone(raw, rows) ==
    LET id == parseId(raw)
    IN  id # NoId /\ IsInteger(id) /\ ~\E r \in rows : r.id = IdVal(id)

----------------------------------------------------------------------------
\* C1: no user ever owns two stores, also when POST /stores handlers for the
\* same user overlap; a well-formed POST /stores whose user owns a store when
\* the insert runs is answered 409 and leaves the Store table as it was.
C1_OneStorePerUser ==
    [][ /\ \A s1, s2 \in stores' : s1.userId = s2.userId => s1 = s2
        /\ \A s1, s2 \in stores' : s1.id = s2.id => s1 = s2
        /\ ( /\ Answers("POST /stores")
             /\ NonBlankString(resp'.args[1])
             /\ \E s \in stores : RefersTo(resp'.args[2], {[id |-> s.userId]}) )
           => (resp'.status = 409 /\ TablesUnchanged) ]_vars

\* C1 witness: a POST /stores was answered 409 after its insert was refused,
\* and its user has exactly the one store
C1_ConflictAnswered ==
    /\ resp.op = "POST /stores" /\ resp.status = 409 /\ resp.calls = 2
    /\ Cardinality({s \in stores : RefersTo(resp.args[2], {[id |-> s.userId]})}) = 1

----------------------------------------------------------------------------
\* C2: DELETE /users/:id of an existing user is answered 204 and removes
\* exactly that user, the user's store and that store's products, every other
\* row staying as it was; for an id of no user it is answered 404 and nothing
\* changes.
C2_DeleteUserCascades ==
    [][ Answers("DELETE /users/:id") =>
          LET raw == resp'.args[1]
              mine == {s \in stores : RefersTo(raw, {[id |-> s.userId]})}
          IN  /\ RefersTo(raw, users) =>
                   /\ resp'.status = 204
                   /\ users' = {u \in users : ~RefersTo(raw, {u})}
                   /\ stores' = stores \ mine
                   /\ products' = {p \in products : \A s \in mine : p.storeId # s.id}
              /\ RefersToNone(raw, users) => (resp'.status = 404 /\ TablesUnchanged)
              /\ resp'.status = 204 => RefersTo(raw, users) ]_vars

\* C2 witness: a user was deleted (204) whose store, gone with it without a
\* DELETE /stores, had a product; another user's store and product remain
C2_CascadeHappened ==
    /\ resp.op = "DELETE /users/:id" /\ resp.status = 204
    /\ \E p \in 1..Len(madeIn) :
          /\ madeIn[p] \notin deletedStores
          /\ ~\E s \in stores : s.id = madeIn[p]
    /\ users # {} /\ stores # {} /\ products # {}

----------------------------------------------------------------------------
\* the products created in a store that a DELETE /stores/:id answered 204 for
InDeletedStore == {p \in 1..Len(madeIn) : madeIn[p] \in deletedStores}

\* C3: once DELETE /stores/:id was answered 204, no product created in that
\* store is in the table, GET /products/:pid of such a product is answered
\* 404 and GET /products does not list it; the DELETE removes the products
\* of that store only.
C3_StoreDeleteCascades ==
    [][ /\ \A p \in InDeletedStore' :
             /\ ~\E row \in products' : row.id = p
             /\ (resp'.op = "GET /products/:id" /\ parseId(resp'.args[1]) = NumFin(FALSE, p, 0))
                   => resp'.status = 404
             /\ resp'.op = "GET /products" => \A i \in 1..Len(resp'.ids) : resp'.ids[i] # p
        /\ (Answers("DELETE /stores/:id") /\ resp'.status = 204)
             => /\ RefersTo(resp'.args[1], stores)
                /\ products' = {p \in products : ~RefersTo(resp'.args[1], {[id |-> p.storeId]})}
                /\ stores' = {s \in stores : ~RefersTo(resp'.args[1], {s})}
                /\ users' = users
        /\ Answers("DELETE /stores/:id") /\ RefersTo(resp'.args[1], stores)
             => resp'.status = 204 ]_vars

\* C3 witness: GET /products/:pid answered 404 for a product of a deleted
\* store while a product of another store is still there
C3_GoneAfterStoreDelete ==
    /\ resp.op = "GET /products/:id" /\ resp.status = 404
    /\ \E p \in InDeletedStore : parseId(resp.args[1]) = NumFin(FALSE, p, 0)
    /\ products # {}

----------------------------------------------------------------------------
\* C4: no two users share an email; a POST /users or PUT /users/:id (with a
\* name that is absent or a string) that would give a user an email another
\* user holds is answered 409 and leaves the User table as it was.
C4_EmailUnique ==
    [][ /\ \A u1, u2 \in users' : (u1.email = u2.email \/ u1.id = u2.id) => u1 = u2
        /\ ( /\ Answers("POST /users")
             /\ resp'.args[1].t = "string" /\ resp'.args[1].s # <<>>
             /\ resp'.args[2].t \in {"undefined", "string"}
             /\ \E u \in users : u.email = resp'.args[1].s )
           => (resp'.status = 409 /\ TablesUnchanged)
        /\ ( /\ Answers("PUT /users/:id")
             /\ RefersTo(resp'.args[1], users)
             /\ NonBlankString(resp'.args[2])
             /\ \E u \in users : /\ u.email = Trim(resp'.args[2].s)
                                 /\ ~RefersTo(resp'.args[1], {u}) )
           => (resp'.status = 409 /\ TablesUnchanged) ]_vars

\* C4 witness: a PUT /users/:id that carried another user's email, and a
\* name, was answered 409
C4_DuplicateRefused ==
    /\ resp.op = "PUT /users/:id" /\ resp.status = 409
    /\ resp.args[3].t = "string"
    /\ Cardinality(users) = 2

----------------------------------------------------------------------------
\* a POST /products response to a body that passes the handler's validation
\* with a string name
WellFormedProduct(args) ==
    /\ NonBlankString(args[1])
    /\ IsFinite(ToNumber(args[2]))
    /\ parseId(args[3]) # NoId /\ IsInteger(parseId(args[3]))

\* C5 (as written): a well-formed POST /products whose store is not there
\* when the handler answers is answered 404 and creates nothing, under any
\* interleaving.
C5_MissingStoreIs404 ==
    [][ ( /\ Answers("POST /products")
          /\ WellFormedProduct(resp'.args)
          /\ RefersToNone(resp'.args[3], stores) )
        => (resp'.status = 404 /\ TablesUnchanged) ]_vars

\* C5 (amended): such a request creates nothing and is answered 404 when the
\* store is missing at the existence check, 400 when the store was deleted
\* between the check and the insert; every product refers to a store that
\* exists; POST /products never changes the Store table.
C5_MissingStoreCreatesNothing ==
    [][ /\ ( /\ Answers("POST /products")
             /\ WellFormedProduct(resp'.args)
             /\ RefersToNone(resp'.args[3], stores) )
           => /\ TablesUnchanged
              /\ resp'.calls = 1 => resp'.status = 404
              /\ resp'.calls = 2 => resp'.status = 400
        /\ \A p \in products' : \E s \in stores' : s.id = p.storeId
        /\ Answers("POST /products") => (stores' = stores /\ users' = users) ]_vars

\* C5 witness: the insert of a POST /products ran after its store was deleted
C5_StoreDeletedBeforeInsert ==
    /\ resp.op = "POST /products" /\ resp.calls = 2 /\ resp.status = 400
    /\ WellFormedProduct(resp.args)
    /\ RefersTo(resp.args[3], {[id |-> s] : s \in deletedStores})

----------------------------------------------------------------------------
\* a step that answers 400 without a storage call and changes no row
RejectedUntouched == resp'.status = 400 /\ resp'.calls = 0 /\ TablesUnchanged

\* C7: PUT /users/:id with no email that is a non-blank string and no name
\* that is a string, PUT /products/:id with no name that is a non-blank
\* string and no price, and PUT /products/:id with a price that is not a
\* finite number are answered 400 with no storage call, the rows unchanged.
C7_EmptyUpdateRejected ==
    [][ /\ ( /\ Answers("PUT /users/:id")
             /\ ~NonBlankString(resp'.args[2]) /\ resp'.args[3].t # "string" )
           => RejectedUntouched
        /\ ( /\ Answers("PUT /products/:id")
             /\ ~NonBlankString(resp'.args[2]) /\ resp'.args[3].t = "undefined" )
           => RejectedUntouched
        /\ ( /\ Answers("PUT /products/:id")
             /\ resp'.args[3].t # "undefined" /\ ~IsFinite(ToNumber(resp'.args[3])) )
           => RejectedUntouched ]_vars

\* C7 witness: PUT /products/1 {name: "Q", price: "a"} was answered 400 and
\* product 1 has the name and price it was created with
C7_BadPriceRejected ==
    /\ resp.op = "PUT /products/:id" /\ resp.status = 400
    /\ resp.args = <<JsStr(<<"1">>), JsStr(<<"Q">>), JsStr(<<"a">>)>>
    /\ [id |-> 1, name |-> <<"P">>, price |-> NumFin(FALSE, 10, 0), storeId |-> 1] \in products

----------------------------------------------------------------------------
\* the required string fields of a request: email of POST /users, name of
\* POST /stores, PUT /stores/:id and POST /products
RequiredStrings(r) ==
    CASE r.op = "POST /users" -> {r.args[1]}
      [] r.op = "POST /stores" -> {r.args[1]}
      [] r.op = "PUT /stores/:id" -> {r.args[2]}
      [] r.op = "POST /products" -> {r.args[1]}
      [] OTHER -> {}

\* C8: a request whose required string field is absent, not a string, or
\* empty after trimming is answered 400 before any storage call.
C8_BadStringNeverReachesStorage ==
    /\ \A v \in RequiredStrings(resp) :
          ~NonBlankString(v) => (resp.status = 400 /\ resp.calls = 0)
    /\ \A h \in BagToSet(inflight) : NonBlankString(h.name)

----------------------------------------------------------------------------
\* "a finite numeric string representing an integer > 0"
IsPositiveIntegerString(v) ==
    /\ v.t = "string"
    /\ LET n == StringToNumber(v.s)
       IN  IsFinite(n) /\ IsInteger(n) /\ ~LeqZero(n)

PositiveFinite(n) == n.k = "fin" /\ ~n.neg /\ n.m > 0

----------------------------------------------------------------------------
\* the requests that have been dispatched to a handler
Dispatched == {h \in Handlers : phase[h] # "none"}

\* C9 (as written): a request is dispatched to a handler only when
\* $connect() has resolved; after a failed $connect() none ever is.
C9_ConnectBeforeRequests == Dispatched # {} => connect = "ready"

\* C9 (amended): a request is dispatched only once the server listens,
\* whatever the state of $connect(); a rejected $connect() changes nothing
\* but the promise: the server goes on listening and the process does not
\* exit.
C9_ListenBeforeRequests ==
    [][ /\ Dispatched' # {} => listening'
        /\ listening => listening'
        /\ (connect = "pending" /\ connect' = "failed") =>
              (listening' = listening /\ exitCode' = exitCode /\ phase' = phase)
        /\ (Running /\ ~Running') => awaiting + settled > 0 ]_vars

\* C9 witness: a request was answered by a process whose $connect() failed
C9_ServedWithoutConnection ==
    /\ connect = "failed" /\ Running
    /\ \E h \in Handlers : phase[h] = "answered"

----------------------------------------------------------------------------
\* C10 (as written): the process exits only after a $disconnect() settled,
\* with code 0, also after a second signal, and no request that was awaiting
\* a storage call when a signal arrived is cut off.
C10_ShutdownSparesHandlers ==
    ~Running => /\ settled > 0
                /\ exitCode = <<0>>
                /\ \A h \in atSignal : phase[h] # "cut"

\* C10 (amended): the process exits only after a $disconnect() settled, with
\* code 0, and once a $disconnect() has settled it eventually exits, also
\* when a second signal arrived meanwhile; the handlers are not waited for.
C10_ExitAfterDisconnect ==
    /\ [](~Running => (settled > 0 /\ exitCode = <<0>>))
    /\ [](awaiting + settled <= MaxSignals)
    /\ (settled > 0) ~> (exitCode = <<0>>)

\* C10 witness: the process exited while a second gracefulShutdown awaited
\* its $disconnect(), and cut off a request that was awaiting a storage call
\* when a signal arrived, although $disconnect() waits for running queries
C10_HandlerCutOff ==
    /\ exitCode = <<0>> /\ awaiting > 0 /\ drains
    /\ \E h \in atSignal : phase[h] = "cut"
====
